---- MODULE Spec2Model ----
(***************************************************************************)
(* A model of pynbs (src/pynbs.py): the NBS document (File), its chord     *)
(* grouping (File.__iter__), the Writer that encodes a document into a     *)
(* byte stream and the Parser that decodes one.                            *)
(*                                                                         *)
(* Representation.  A byte is an integer 0..255 and a stream a sequence of *)
(* bytes.  A Python str is a sequence of code points; str.encode() and     *)
(* bytes.decode() are UTF-8, modelled by Utf8Encode and Utf8Decode.  A     *)
(* struct format is "b", "h" or "i" (BYTE, SHORT, INT: signed, little      *)
(* endian, 1, 2 and 4 bytes).  header.tempo is a float in the source; the  *)
(* model holds it in hundredths (the value int(tempo * 100) that the       *)
(* writer packs and the parser divides by 100.0), so float rounding is     *)
(* outside the model.                                                      *)
(***************************************************************************)
EXTENDS Integers, Sequences, FiniteSets, TLC

VARIABLES
    header,       \* File.header: the Header object's 18 attributes
    notes,        \* File.notes: list of Note
    layers,       \* File.layers: list of Layer
    instruments,  \* File.instruments: list of Instrument
    buffer,       \* the bytes of the file the Writer wrote / the Parser reads
    pos,          \* the read position of the Parser's buffer
    op,           \* the last operation run: "new", "save", "encode", "open",
                  \* "read", "iter", "jump"
    err,          \* the exception it raised, "none" when it returned
    parsed,       \* <<>> or <<f>>, f the File that read_file returned
    yielded       \* what the last generator run (File.__iter__, Parser.jump) yielded

vars == <<header, notes, layers, instruments, buffer, pos, op, err, parsed, yielded>>

file_vars == <<header, notes, layers, instruments>>

-----------------------------------------------------------------------------
(* Bounds of the model *)

MaxNotes == 2

MaxLayers == 2

MaxInstruments == 1

MaxShorts == 3

-----------------------------------------------------------------------------
(* struct: BYTE = Struct('<b'), SHORT = Struct('<h'), INT = Struct('<i') *)

Size(fmt) == CASE fmt = "b" -> 1 [] fmt = "h" -> 2 [] fmt = "i" -> 4

\* Struct.pack raises struct.error when the value is outside the signed range.
Fits(fmt, v) ==
    CASE fmt = "b" -> v >= -128 /\ v <= 127
      [] fmt = "h" -> v >= -32768 /\ v <= 32767
      [] fmt = "i" -> v >= -2147483647 - 1 /\ v <= 2147483647

\* Struct.pack: two's complement, little endian.
Pack(fmt, v) ==
    CASE fmt = "b" -> << v % 256 >>
      [] fmt = "h" -> << v % 256, (v \div 256) % 256 >>
      [] fmt = "i" -> << v % 256, (v \div 256) % 256, (v \div 65536) % 256,
                         (v \div 16777216) % 256 >>

\* Struct.unpack of exactly Size(fmt) bytes.
Unpack(fmt, bs) ==
    CASE fmt = "b" -> IF bs[1] >= 128 THEN bs[1] - 256 ELSE bs[1]
      [] fmt = "h" -> LET u == bs[1] + 256 * bs[2]
                      IN  IF u >= 32768 THEN u - 65536 ELSE u
      [] fmt = "i" -> LET lo == bs[1] + 256 * bs[2] + 65536 * bs[3]
                      IN  IF bs[4] >= 128
                          THEN (lo + 16777216 * (bs[4] - 128) - 2147483647) - 1
                          ELSE lo + 16777216 * bs[4]

-----------------------------------------------------------------------------
(* str.encode() / bytes.decode(): UTF-8 *)

Utf8Char(c) ==
    IF c < 128 THEN << c >>
    ELSE IF c < 2048 THEN << 192 + (c \div 64), 128 + (c % 64) >>
    ELSE IF c < 65536
         THEN << 224 + (c \div 4096), 128 + ((c \div 64) % 64), 128 + (c % 64) >>
         ELSE << 240 + (c \div 262144), 128 + ((c \div 4096) % 64),
                 128 + ((c \div 64) % 64), 128 + (c % 64) >>

RECURSIVE Utf8Encode(_)
Utf8Encode(s) == IF s = <<>> THEN <<>> ELSE Utf8Char(Head(s)) \o Utf8Encode(Tail(s))

IsCont(bs, i) == i <= Len(bs) /\ bs[i] >= 128 /\ bs[i] <= 191

\* Strict UTF-8 decoding from index i; ok = FALSE is UnicodeDecodeError.
RECURSIVE Utf8DecodeFrom(_, _, _)
Utf8DecodeFrom(bs, i, acc) ==
    IF i > Len(bs) THEN [ok |-> TRUE, str |-> acc]
    ELSE LET b == bs[i] IN
      IF b < 128 THEN Utf8DecodeFrom(bs, i + 1, Append(acc, b))
      ELSE IF b >= 194 /\ b <= 223 /\ IsCont(bs, i + 1)
        THEN Utf8DecodeFrom(bs, i + 2, Append(acc, (b - 192) * 64 + (bs[i + 1] - 128)))
      ELSE IF b >= 224 /\ b <= 239 /\ IsCont(bs, i + 1) /\ IsCont(bs, i + 2)
              /\ (b = 224 => bs[i + 1] >= 160) /\ (b = 237 => bs[i + 1] <= 159)
        THEN Utf8DecodeFrom(bs, i + 3,
                 Append(acc, (b - 224) * 4096 + (bs[i + 1] - 128) * 64 + (bs[i + 2] - 128)))
      ELSE IF b >= 240 /\ b <= 244 /\ IsCont(bs, i + 1) /\ IsCont(bs, i + 2)
              /\ IsCont(bs, i + 3)
              /\ (b = 240 => bs[i + 1] >= 144) /\ (b = 244 => bs[i + 1] <= 143)
        THEN Utf8DecodeFrom(bs, i + 4,
                 Append(acc, (b - 240) * 262144 + (bs[i + 1] - 128) * 4096
                             + (bs[i + 2] - 128) * 64 + (bs[i + 3] - 128)))
      ELSE [ok |-> FALSE, str |-> acc]

Utf8Decode(bs) == Utf8DecodeFrom(bs, 1, <<>>)

-----------------------------------------------------------------------------
(* The records of the module *)

Note(tick, layer, instrument, key) ==
    [tick |-> tick, layer |-> layer, instrument |-> instrument, key |-> key]

Layer(id, name, volume, panning) ==
    [id |-> id, name |-> name, volume |-> volume, panning |-> panning]

Instrument(id, name, file, pitch, press_key) ==
    [id |-> id, name |-> name, file |-> file, pitch |-> pitch, press_key |-> press_key]

\* Header.__init__: every attribute takes the caller's value or its default.
HeaderDefaults ==
    [version |-> 3, default_instruments |-> 16, song_length |-> 0, song_layers |-> 0,
     song_name |-> <<>>, song_author |-> <<>>, original_author |-> <<>>,
     description |-> <<>>, tempo |-> 1000, auto_save |-> FALSE,
     auto_save_duration |-> 10, time_signature |-> 4, minutes_spent |-> 0,
     left_clicks |-> 0, right_clicks |-> 0, blocks_added |-> 0, blocks_removed |-> 0,
     song_origin |-> <<>>]

Header(overrides) ==
    [k \in DOMAIN HeaderDefaults |->
        IF k \in DOMAIN overrides THEN overrides[k] ELSE HeaderDefaults[k]]

File(h, ns, ls, is) == [header |-> h, notes |-> ns, layers |-> ls, instruments |-> is]

\* new_file(**header)
NewFile(overrides) == File(Header(overrides), <<>>, << Layer(0, <<>>, 100, 100) >>, <<>>)

-----------------------------------------------------------------------------
(* File *)

\* sorted(seq, key=...) and list.sort(key=...): stable, ascending in the key.
RECURSIVE InsertByKey(_, _, _)
InsertByKey(s, x, key) ==
    IF s = <<>> THEN << x >>
    ELSE IF x[key] < s[Len(s)][key]
         THEN Append(InsertByKey(SubSeq(s, 1, Len(s) - 1), x, key), s[Len(s)])
         ELSE Append(s, x)

RECURSIVE SortedByKey(_, _)
SortedByKey(s, key) ==
    IF s = <<>> THEN <<>>
    ELSE InsertByKey(SortedByKey(SubSeq(s, 1, Len(s) - 1), key), s[Len(s)], key)

\* File.update_header: the new header.
UpdateHeader(h, ns, ls) ==
    [h EXCEPT !.song_length = IF ns # <<>> THEN ns[Len(ns)].tick ELSE @,
              !.song_layers = Len(ls)]

\* The for loop of File.__iter__ from the i-th sorted note on; out is what has
\* been yielded so far.
RECURSIVE IterLoop(_, _, _, _, _)
IterLoop(sorted, i, current_tick, chord, out) ==
    IF i > Len(sorted)
    THEN Append(out, [tick |-> current_tick, chord |-> chord])
    ELSE LET note == sorted[i] IN
         IF note.tick = current_tick
         THEN IterLoop(sorted, i + 1, current_tick, Append(chord, note), out)
         ELSE IterLoop(sorted, i + 1, note.tick, << note >>,
                       Append(out, [tick |-> current_tick,
                                    chord |-> SortedByKey(chord, "layer")]))

\* File.__iter__, run to exhaustion: the sequence of (tick, chord) it yields.
FileIter(ns) ==
    IF ns = <<>> THEN <<>>
    ELSE IterLoop(SortedByKey(ns, "tick"), 1, ns[1].tick, <<>>, <<>>)

-----------------------------------------------------------------------------
(* Writer.  What a write_* method writes is a sequence of items, in order:  *)
(* a number to pack (encode_numeric) or raw bytes (buffer.write).  role     *)
(* names the source expression the item comes from.                         *)

Num(fmt, val, role) == [fmt |-> fmt, val |-> val, raw |-> <<>>, role |-> role]

Raw(bytes) == [fmt |-> "raw", val |-> 0, raw |-> bytes, role |-> "text"]

BoolInt(b) == IF b THEN 1 ELSE 0

\* Writer.encode_string
EncodeString(value) == << Num("i", Len(value), "length"), Raw(Utf8Encode(value)) >>

\* Writer.write_header
WriteHeader(h) ==
    << Num("h", 0, "marker"),
       Num("b", h.version, "version"),
       Num("b", h.default_instruments, "default_instruments"),
       Num("h", h.song_length, "song_length"),
       Num("h", h.song_layers, "song_layers") >>
    \o EncodeString(h.song_name)
    \o EncodeString(h.song_author)
    \o EncodeString(h.original_author)
    \o EncodeString(h.description)
    \o << Num("h", h.tempo, "tempo"),
          Num("b", BoolInt(h.auto_save), "auto_save"),
          Num("b", h.auto_save_duration, "auto_save_duration"),
          Num("b", h.time_signature, "time_signature"),
          Num("i", h.minutes_spent, "minutes_spent"),
          Num("i", h.left_clicks, "left_clicks"),
          Num("i", h.right_clicks, "right_clicks"),
          Num("i", h.blocks_added, "blocks_added"),
          Num("i", h.blocks_removed, "blocks_removed") >>
    \o EncodeString(h.song_origin)

\* The inner loop of Writer.write_notes over one chord, from its i-th note.
RECURSIVE WriteChord(_, _, _)
WriteChord(chord, i, current_layer) ==
    IF i > Len(chord) THEN <<>>
    ELSE << Num("h", chord[i].layer - current_layer, "layer_delta"),
            Num("b", chord[i].instrument, "instrument"),
            Num("b", chord[i].key, "key") >>
         \o WriteChord(chord, i + 1, chord[i].layer)

\* The outer loop of Writer.write_notes over the pairs the file yields.
RECURSIVE WriteChords(_, _, _)
WriteChords(pairs, i, current_tick) ==
    IF i > Len(pairs) THEN <<>>
    ELSE << Num("h", pairs[i].tick - current_tick, "tick_delta") >>
         \o WriteChord(pairs[i].chord, 1, -1)
         \o << Num("h", 0, "chord_end") >>
         \o WriteChords(pairs, i + 1, pairs[i].tick)

\* Writer.write_notes
WriteNotes(ns) == WriteChords(FileIter(ns), 1, -1) \o << Num("h", 0, "notes_end") >>

\* Writer.write_layers
RECURSIVE WriteLayers(_)
WriteLayers(ls) ==
    IF ls = <<>> THEN <<>>
    ELSE EncodeString(Head(ls).name)
         \o << Num("b", Head(ls).volume, "volume"), Num("b", Head(ls).panning, "panning") >>
         \o WriteLayers(Tail(ls))

RECURSIVE WriteInstrumentRecords(_)
WriteInstrumentRecords(is) ==
    IF is = <<>> THEN <<>>
    ELSE EncodeString(Head(is).name) \o EncodeString(Head(is).file)
         \o << Num("b", Head(is).pitch, "pitch"),
               Num("b", BoolInt(Head(is).press_key), "press_key") >>
         \o WriteInstrumentRecords(Tail(is))

\* Writer.write_instruments
WriteInstruments(is) ==
    << Num("b", Len(is), "instrument_count") >> \o WriteInstrumentRecords(is)

\* Writer.encode_numeric / buffer.write over the items from the i-th on: the
\* bytes that reach the buffer, and the struct.error that ends the writing.
RECURSIVE WriteItems(_, _, _)
WriteItems(items, i, acc) ==
    IF i > Len(items) THEN [bytes |-> acc, err |-> "none"]
    ELSE LET it == items[i] IN
         IF it.fmt = "raw" THEN WriteItems(items, i + 1, acc \o it.raw)
         ELSE IF Fits(it.fmt, it.val)
              THEN WriteItems(items, i + 1, acc \o Pack(it.fmt, it.val))
              ELSE [bytes |-> acc, err |-> "struct.error"]

\* What one write_* method leaves in the buffer
Written(items) == WriteItems(items, 1, <<>>)

\* b runs after a unless a raised
Then(a, b) ==
    IF a.err # "none" THEN a ELSE [bytes |-> a.bytes \o b.bytes, err |-> b.err]

\* Writer.encode_file: the four sections in order.
EncodeFile(f) ==
    Then(Then(Then(Written(WriteHeader(f.header)),
                   Written(WriteNotes(f.notes))),
              Written(WriteLayers(f.layers))),
         Written(WriteInstruments(f.instruments)))

-----------------------------------------------------------------------------
(* Parser.  A read returns [err, pos, val]: the exception ("none" when it   *)
(* returned), the position of the buffer afterwards and the value read.     *)

Min(a, b) == IF a < b THEN a ELSE b

\* A short read that is padded with zero bytes instead of failing.
ReadNumericPadded(buf, p, fmt) ==
    IF p + Size(fmt) > Len(buf)
    THEN [err |-> "none", pos |-> Len(buf), val |-> 0]
    ELSE [err |-> "none", pos |-> p + Size(fmt),
          val |-> Unpack(fmt, SubSeq(buf, p + 1, p + Size(fmt)))]

\* Parser.read_numeric: buffer.read returns the bytes that are left when fewer
\* than fmt.size remain, and Struct.unpack then raises struct.error.
ReadNumeric(buf, p, fmt) ==
    IF p + Size(fmt) > Len(buf)
    THEN [err |-> "struct.error", pos |-> Len(buf), val |-> 0]
    ELSE [err |-> "none", pos |-> p + Size(fmt),
          val |-> Unpack(fmt, SubSeq(buf, p + 1, p + Size(fmt)))]

\* Parser.read_string once its length is read.  The buffer is a file opened
\* 'rb' (read, save): read(n) returns at most n bytes and no error when fewer
\* are left, read(-1) returns the rest, and read(n) with n < -1 raises ValueError.
ReadText(buf, length) ==
    IF length.err # "none" THEN [err |-> length.err, pos |-> length.pos, val |-> <<>>]
    ELSE IF length.val < -1 THEN [err |-> "ValueError", pos |-> length.pos, val |-> <<>>]
    ELSE LET left == Len(buf) - length.pos
             n == IF length.val = -1 THEN left ELSE Min(length.val, left)
             text == Utf8Decode(SubSeq(buf, length.pos + 1, length.pos + n))
         IN  IF text.ok
             THEN [err |-> "none", pos |-> length.pos + n, val |-> text.str]
             ELSE [err |-> "UnicodeDecodeError", pos |-> length.pos + n, val |-> <<>>]

\* Parser.read_string
ReadString(buf, p) == ReadText(buf, ReadNumeric(buf, p, "i"))

\* One read_string ("s") or read_numeric call
ReadOne(buf, p, kind) ==
    IF kind = "s" THEN ReadString(buf, p) ELSE ReadNumeric(buf, p, kind)

\* The reads that make up the arguments of one record, left to right, from the
\* i-th on: val is the values read, and the first exception ends the reads.
RECURSIVE ReadArgs(_, _, _, _, _)
ReadArgs(buf, p, kinds, i, acc) ==
    IF i > Len(kinds) THEN [err |-> "none", pos |-> p, val |-> acc]
    ELSE LET r == ReadOne(buf, p, kinds[i]) IN
         IF r.err # "none" THEN [err |-> r.err, pos |-> r.pos, val |-> acc]
         ELSE ReadArgs(buf, r.pos, kinds, i + 1, Append(acc, r.val))

\* One turn of the loop of Parser.jump that stops on every jump <= 0.
JumpStepStopNonPositive(buf, p, value) ==
    LET jump == ReadNumeric(buf, p, "h") IN
    IF jump.err # "none"
    THEN [err |-> jump.err, pos |-> jump.pos, stop |-> TRUE, value |-> value]
    ELSE IF jump.val <= 0
         THEN [err |-> "none", pos |-> jump.pos, stop |-> TRUE, value |-> value]
         ELSE [err |-> "none", pos |-> jump.pos, stop |-> FALSE, value |-> value + jump.val]

\* One turn of the loop of Parser.jump: read a SHORT; break on 0, else add it to
\* value and yield.  stop: the generator ended (break, or the exception).
JumpStep(buf, p, value) ==
    LET jump == ReadNumeric(buf, p, "h") IN
    IF jump.err # "none"
    THEN [err |-> jump.err, pos |-> jump.pos, stop |-> TRUE, value |-> value]
    ELSE IF jump.val = 0
         THEN [err |-> "none", pos |-> jump.pos, stop |-> TRUE, value |-> value]
         ELSE [err |-> "none", pos |-> jump.pos, stop |-> FALSE, value |-> value + jump.val]

\* Parser.jump run to exhaustion from position p: val is what it yielded.
RECURSIVE JumpLoop(_, _, _, _)
JumpLoop(buf, p, value, acc) ==
    LET s == JumpStep(buf, p, value) IN
    IF s.stop THEN [err |-> s.err, pos |-> s.pos, val |-> acc]
    ELSE JumpLoop(buf, s.pos, s.value, Append(acc, s.value))

\* value = -1 before the first jump
Jump(buf, p) == JumpLoop(buf, p, -1, <<>>)

\* The marker test of Parser.parse_header that rejects only marker 1.
IsDeprecatedOnlyOne(marker) == marker = 1

\* The marker test of Parser.parse_header.
IsDeprecated(marker) == marker # 0

\* The fields Parser.parse_header reads after the marker, in the order of its
\* dict display: name, how it is read, how the value read is converted.
HeaderLayout ==
    << <<"version", "b", "id">>, <<"default_instruments", "b", "id">>,
       <<"song_length", "h", "id">>, <<"song_layers", "h", "id">>,
       <<"song_name", "s", "id">>, <<"song_author", "s", "id">>,
       <<"original_author", "s", "id">>, <<"description", "s", "id">>,
       <<"tempo", "h", "hundredths">>, <<"auto_save", "b", "eq1">>,
       <<"auto_save_duration", "b", "id">>, <<"time_signature", "b", "id">>,
       <<"minutes_spent", "i", "id">>, <<"left_clicks", "i", "id">>,
       <<"right_clicks", "i", "id">>, <<"blocks_added", "i", "id">>,
       <<"blocks_removed", "i", "id">>, <<"song_origin", "s", "id">> >>

Convert(how, v) == IF how = "eq1" THEN v = 1 ELSE v

RECURSIVE ParseHeaderFields(_, _, _, _)
ParseHeaderFields(buf, p, i, acc) ==
    IF i > Len(HeaderLayout) THEN [err |-> "none", pos |-> p, val |-> acc]
    ELSE LET r == ReadOne(buf, p, HeaderLayout[i][2]) IN
         IF r.err # "none" THEN [err |-> r.err, pos |-> r.pos, val |-> acc]
         ELSE ParseHeaderFields(buf, r.pos, i + 1,
                  acc @@ (HeaderLayout[i][1] :> Convert(HeaderLayout[i][3], r.val)))

ParseHeaderAfter(buf, marker) ==
    IF marker.err # "none" THEN [err |-> marker.err, pos |-> marker.pos, val |-> <<>>]
    ELSE IF IsDeprecated(marker.val)
         THEN [err |-> "DeprecationWarning", pos |-> marker.pos, val |-> <<>>]
         ELSE ParseHeaderFields(buf, marker.pos, 1, <<>>)

\* Parser.parse_header: val is the dict it returns.
ParseHeader(buf, p) == ParseHeaderAfter(buf, ReadNumeric(buf, p, "h"))

\* Parser.parse_notes: the inner loop (for current_layer in self.jump()); s is
\* the turn of the jump generator, r the instrument and key read after it.
RECURSIVE ParseChord(_, _, _, _, _)
ParseChordNote(buf, current_tick, s, r, acc) ==
    IF r.err # "none" THEN [err |-> r.err, pos |-> r.pos, val |-> acc]
    ELSE ParseChord(buf, r.pos, current_tick, s.value,
                    Append(acc, Note(current_tick, s.value, r.val[1], r.val[2])))

ParseChordTurn(buf, current_tick, s, acc) ==
    IF s.stop THEN [err |-> s.err, pos |-> s.pos, val |-> acc]
    ELSE ParseChordNote(buf, current_tick, s,
                        ReadArgs(buf, s.pos, <<"b", "b">>, 1, <<>>), acc)

ParseChord(buf, p, current_tick, layer, acc) ==
    ParseChordTurn(buf, current_tick, JumpStep(buf, p, layer), acc)

\* Parser.parse_notes: the outer loop (for current_tick in self.jump()).
RECURSIVE ParseTicks(_, _, _, _)
ParseTicksChord(buf, s, chord) ==
    IF chord.err # "none" THEN chord
    ELSE ParseTicks(buf, chord.pos, s.value, chord.val)

ParseTicksTurn(buf, s, acc) ==
    IF s.stop THEN [err |-> s.err, pos |-> s.pos, val |-> acc]
    ELSE ParseTicksChord(buf, s, ParseChord(buf, s.pos, s.value, -1, acc))

ParseTicks(buf, p, tick, acc) == ParseTicksTurn(buf, JumpStep(buf, p, tick), acc)

\* Parser.parse_notes
ParseNotes(buf, p) == ParseTicks(buf, p, -1, <<>>)

\* Parser.parse_layers: for i in range(layers_count)
RECURSIVE ParseLayers(_, _, _, _, _)
ParseLayer(buf, layers_count, i, r, acc) ==
    IF r.err # "none" THEN [err |-> r.err, pos |-> r.pos, val |-> acc]
    ELSE ParseLayers(buf, r.pos, layers_count, i + 1,
                     Append(acc, Layer(i, r.val[1], r.val[2], r.val[3])))

ParseLayers(buf, p, layers_count, i, acc) ==
    IF i >= layers_count THEN [err |-> "none", pos |-> p, val |-> acc]
    ELSE ParseLayer(buf, layers_count, i, ReadArgs(buf, p, <<"s", "b", "b">>, 1, <<>>), acc)

\* Parser.parse_instruments: for i in range(count)
RECURSIVE ParseInstrumentRecords(_, _, _, _, _)
ParseInstrument(buf, count, i, r, acc) ==
    IF r.err # "none" THEN [err |-> r.err, pos |-> r.pos, val |-> acc]
    ELSE ParseInstrumentRecords(buf, r.pos, count, i + 1,
             Append(acc, Instrument(i, r.val[1], r.val[2], r.val[3], r.val[4] = 1)))

ParseInstrumentRecords(buf, p, count, i, acc) ==
    IF i >= count THEN [err |-> "none", pos |-> p, val |-> acc]
    ELSE ParseInstrument(buf, count, i,
                         ReadArgs(buf, p, <<"s", "s", "b", "b">>, 1, <<>>), acc)

ParseInstrumentsAfter(buf, count) ==
    IF count.err # "none" THEN [err |-> count.err, pos |-> count.pos, val |-> <<>>]
    ELSE ParseInstrumentRecords(buf, count.pos, count.val, 0, <<>>)

\* Parser.parse_instruments
ParseInstruments(buf, p) == ParseInstrumentsAfter(buf, ReadNumeric(buf, p, "b"))

\* Parser.read_file, section by section: each takes what the sections before it
\* returned, and an exception in a section ends the parse with no File.
ReadFileInstruments(hdr, ns, ls, is) ==
    IF is.err # "none" THEN [err |-> is.err, pos |-> is.pos, val |-> <<>>]
    ELSE [err |-> "none", pos |-> is.pos, val |-> << File(hdr, ns.val, ls.val, is.val) >>]

ReadFileLayers(buf, hdr, ns, ls) ==
    IF ls.err # "none" THEN [err |-> ls.err, pos |-> ls.pos, val |-> <<>>]
    ELSE ReadFileInstruments(hdr, ns, ls, ParseInstruments(buf, ls.pos))

ReadFileNotes(buf, hdr, ns) ==
    IF ns.err # "none" THEN [err |-> ns.err, pos |-> ns.pos, val |-> <<>>]
    ELSE ReadFileLayers(buf, hdr, ns, ParseLayers(buf, ns.pos, hdr.song_layers, 0, <<>>))

ReadFileHeader(buf, h) ==
    IF h.err # "none" THEN [err |-> h.err, pos |-> h.pos, val |-> <<>>]
    ELSE ReadFileNotes(buf, Header(h.val), ParseNotes(buf, h.pos))

\* Parser.read_file on a buffer at position 0: val is <<f>>, f the File returned,
\* or <<>> when an exception ended the parse.
ReadFile(buf) == ReadFileHeader(buf, ParseHeader(buf, 0))

-----------------------------------------------------------------------------
(* The inputs the model draws from *)

\* Keyword arguments of new_file(**header): none; stale counters; a non-ASCII
\* string with counters that fit the default layer; counters that fit one layer
\* and a last tick of 2.
HeaderChoices ==
    << <<>>,
       [song_length |-> 9, song_layers |-> 3, song_name |-> <<97, 98>>,
        tempo |-> 1234, auto_save |-> TRUE, minutes_spent |-> 70000,
        left_clicks |-> -2],
       [song_layers |-> 1, song_origin |-> <<233>>],
       [song_length |-> 2, song_layers |-> 1, song_author |-> <<97>>] >>

\* Notes a caller appends: instrument and key within a signed byte ...
SmallNotes == { Note(0, 0, 0, 45), Note(2, 1, 127, 46) }

\* ... and on the other grid cells, and with an instrument above 127.
NoteChoices == SmallNotes \cup { Note(0, 1, 1, 47), Note(2, 0, 2, 48), Note(1, 0, 200, 45) }

\* (name, volume, panning) of the layers a caller appends
SmallLayers == { << <<97>>, 50, 100 >> }

LayerChoices == SmallLayers \cup { << <<>>, 100, 200 >> }

\* (name, file, pitch, press_key) of the instruments a caller appends
InstrumentChoices == { << <<99>>, <<100, 46>>, 45, TRUE >> }

\* The 16-bit values of a stream handed to the Parser from outside
ShortChoices == { -2, -1, 0, 1, 3 }

RECURSIVE PackShorts(_)
PackShorts(s) == IF s = <<>> THEN <<>> ELSE Pack("h", Head(s)) \o PackShorts(Tail(s))

ShortSeqs == UNION { [1..n -> ShortChoices] : n \in 0..MaxShorts }

\* A stream of shorts, whole or followed by one odd byte
Streams == { PackShorts(s) \o t : s \in ShortSeqs, t \in { <<>>, <<1>> } }

-----------------------------------------------------------------------------
(* The state machine *)

TheFile == File(header, notes, layers, instruments)

\* new_file(**header)
Init ==
    /\ \E i \in 1..Len(HeaderChoices) :
          LET f == NewFile(HeaderChoices[i]) IN
          /\ header = f.header
          /\ notes = f.notes
          /\ layers = f.layers
          /\ instruments = f.instruments
    /\ buffer = <<>>
    /\ pos = 0
    /\ op = "new"
    /\ err = "none"
    /\ parsed = <<>>
    /\ yielded = <<>>

\* The caller builds the document before it runs the codec on it:
\* nbs_file.notes.append(note)
AppendNote(n) ==
    /\ op = "new"
    /\ Len(notes) < MaxNotes
    /\ notes' = Append(notes, n)
    /\ UNCHANGED <<header, layers, instruments, buffer, pos, op, err, parsed, yielded>>

\* nbs_file.layers.append(Layer(len(nbs_file.layers), name, volume, panning))
AppendLayer(l) ==
    /\ op = "new"
    /\ Len(layers) < MaxLayers
    /\ layers' = Append(layers, Layer(Len(layers), l[1], l[2], l[3]))
    /\ UNCHANGED <<header, notes, instruments, buffer, pos, op, err, parsed, yielded>>

\* nbs_file.instruments.append(Instrument(len(nbs_file.instruments), ...))
AppendInstrument(x) ==
    /\ op = "new"
    /\ Len(instruments) < MaxInstruments
    /\ instruments' = Append(instruments,
                             Instrument(Len(instruments), x[1], x[2], x[3], x[4]))
    /\ UNCHANGED <<header, notes, layers, buffer, pos, op, err, parsed, yielded>>

\* File.save(filename): update_header, then Writer(buff).encode_file(self) into
\* the file opened 'wb'.
Save ==
    /\ header' = UpdateHeader(header, notes, layers)
    /\ LET w == EncodeFile(File(header', notes, layers, instruments)) IN
       /\ buffer' = w.bytes
       /\ err' = w.err
    /\ pos' = 0
    /\ op' = "save"
    /\ parsed' = <<>>
    /\ yielded' = <<>>
    /\ UNCHANGED <<notes, layers, instruments>>

\* Writer(buff).encode_file(nbs_file) called directly on a new buffer
Encode ==
    /\ LET w == EncodeFile(TheFile) IN
       /\ buffer' = w.bytes
       /\ err' = w.err
    /\ pos' = 0
    /\ op' = "encode"
    /\ parsed' = <<>>
    /\ yielded' = <<>>
    /\ UNCHANGED file_vars

\* list(nbs_file): File.__iter__ run to exhaustion
Iterate ==
    /\ op # "iter"
    /\ yielded' = FileIter(notes)
    /\ op' = "iter"
    /\ err' = "none"
    /\ UNCHANGED <<header, notes, layers, instruments, buffer, pos, parsed>>

\* open(filename, 'rb') on a file with the given bytes, Parser(buff)
Open(bytes) ==
    /\ buffer' = bytes
    /\ pos' = 0
    /\ op' = "open"
    /\ err' = "none"
    /\ parsed' = <<>>
    /\ yielded' = <<>>
    /\ UNCHANGED file_vars

\* read(filename) / Parser(buff).read_file() on the file from its start
Read ==
    /\ op \in {"save", "encode", "open"}
    /\ LET r == ReadFile(buffer) IN
       /\ pos' = r.pos
       /\ err' = r.err
       /\ parsed' = r.val
    /\ op' = "read"
    /\ yielded' = <<>>
    /\ UNCHANGED <<header, notes, layers, instruments, buffer>>

\* list(Parser(buff).jump()) on a buffer just opened
RunJump ==
    /\ op = "open"
    /\ LET j == Jump(buffer, pos) IN
       /\ pos' = j.pos
       /\ err' = j.err
       /\ yielded' = j.val
    /\ op' = "jump"
    /\ UNCHANGED <<header, notes, layers, instruments, buffer, parsed>>

\* Documents built, saved, encoded, iterated and read back
Next ==
    \/ \E n \in NoteChoices : AppendNote(n)
    \/ \E l \in LayerChoices : AppendLayer(l)
    \/ \E x \in InstrumentChoices : AppendInstrument(x)
    \/ Save
    \/ Encode
    \/ Iterate
    \/ Read

Spec == Init /\ [][Next]_vars

\* read(filename) on a saved file that was cut short: open(filename, 'rb') finds
\* a strict prefix of what save wrote, and Parser(buff).read_file() reads it.
ReadPrefix ==
    /\ op = "save"
    /\ err = "none"
    /\ \E k \in 0..(Len(buffer) - 1) :
          LET r == ReadFile(SubSeq(buffer, 1, k)) IN
          /\ buffer' = SubSeq(buffer, 1, k)
          /\ pos' = r.pos
          /\ err' = r.err
          /\ parsed' = r.val
    /\ op' = "read"
    /\ yielded' = <<>>
    /\ UNCHANGED file_vars

NextTruncated ==
    \/ \E n \in SmallNotes : AppendNote(n)
    \/ \E l \in SmallLayers : AppendLayer(l)
    \/ \E x \in InstrumentChoices : AppendInstrument(x)
    \/ Save
    \/ ReadPrefix
    \/ Read

SpecTruncated == Init /\ [][NextTruncated]_vars

\* Streams from outside handed to the Parser
OpenStream ==
    /\ op = "new"
    /\ \E s \in Streams : Open(s)

NextStream ==
    \/ OpenStream
    \/ RunJump
    \/ Read

SpecStream == Init /\ [][NextStream]_vars

-----------------------------------------------------------------------------
(* Vocabulary of the properties *)

DistinctPairs(ns) ==
    \A i, j \in 1..Len(ns) :
        i # j => <<ns[i].tick, ns[i].layer>> # <<ns[j].tick, ns[j].layer>>

TickSet(ns) == { ns[i].tick : i \in 1..Len(ns) }

GreatestTick(ns) ==
    IF ns = <<>> THEN 0 ELSE CHOOSE t \in TickSet(ns) : \A u \in TickSet(ns) : u <= t

NoteSet(ns) == { ns[i] : i \in 1..Len(ns) }

\* The header counters agree with the notes and the layers.
Consistent(h, ns, ls) == h.song_length = GreatestTick(ns) /\ h.song_layers = Len(ls)

SameDocument(g, d) ==
    /\ g.header = d.header
    /\ NoteSet(g.notes) = NoteSet(d.notes)
    /\ Len(g.notes) = Len(d.notes)
    /\ g.layers = d.layers
    /\ g.instruments = d.instruments

StrictlyIncreasing(s) == \A i \in 1..(Len(s) - 1) : s[i] < s[i + 1]

\* The header fields at their fixed offsets in what the Writer wrote
WrittenSongLength == Unpack("h", SubSeq(buffer, 5, 6))

WrittenSongLayers == Unpack("h", SubSeq(buffer, 7, 8))

\* The i-th 16-bit value of the stream
ShortAt(buf, i) == Unpack("h", SubSeq(buf, 2 * i - 1, 2 * i))

\* How many notes of the chords yielded equal n (no chord is longer than m)
Occurrences(pairs, n, m) ==
    Cardinality({ <<i, j>> \in (1..Len(pairs)) \X (1..m) :
                    j <= Len(pairs[i].chord) /\ pairs[i].chord[j] = n })

Held(ns, n) == Cardinality({ i \in 1..Len(ns) : ns[i] = n })

-----------------------------------------------------------------------------
(* Properties *)

\* C1: every document with pairwise distinct (tick, layer) pairs and header
\* counters that agree with its notes and layers, its notes held in any order,
\* is read back equal from what save or encode_file wrote: the same header
\* values, set of notes, layers and instruments.
C1_RoundTrip ==
    [][ (op' \in {"save", "encode"} /\ DistinctPairs(notes)
            /\ Consistent(header, notes, layers))
        => /\ ReadFile(buffer').val # <<>>
           /\ SameDocument(ReadFile(buffer').val[1], TheFile) ]_vars

\* C2: iterating a document yields pairs in strictly ascending tick order, and
\* the notes of every chord yielded, the last one too, are in ascending layer
\* order.
C2_ChordOrder ==
    op = "iter" =>
        /\ StrictlyIncreasing([i \in 1..Len(yielded) |-> yielded[i].tick])
        /\ \A i \in 1..Len(yielded) :
              \A j \in 1..(Len(yielded[i].chord) - 1) :
                  yielded[i].chord[j].layer <= yielded[i].chord[j + 1].layer

\* C3: the song_length that save writes is the greatest tick among the notes,
\* and 0 when there are none, whatever the header carried before.
C3_SongLength ==
    (op = "save" /\ err = "none") => WrittenSongLength = GreatestTick(notes)

\* C4: save and a direct encode_file both write a song_layers equal to the
\* number of layer records they write.
C4_LayerCount ==
    (op \in {"save", "encode"} /\ err = "none") => WrittenSongLayers = Len(layers)

\* C5: a stream whose leading 16-bit value is nonzero is rejected with the
\* deprecated-format error, no document is returned, and the stream position
\* afterwards is 2.
C5_LegacyRejected ==
    (op = "read" /\ Len(buffer) >= 2 /\ ShortAt(buffer, 1) # 0)
        => err = "DeprecationWarning" /\ parsed = <<>> /\ pos = 2

C5_Witness ==
    /\ op = "read"
    /\ Len(buffer) > 2
    /\ ShortAt(buffer, 1) = -2
    /\ err = "DeprecationWarning"
    /\ pos = 2

\* The bytes save wrote for the document held, when they are a valid encoded
\* document: the whole of them reads back, to their last byte, with no error.
ValidEncoding(w) ==
    /\ w.err = "none"
    /\ ReadFile(w.bytes).err = "none"
    /\ ReadFile(w.bytes).pos = Len(w.bytes)

IsStrictPrefix(s, t) == Len(s) < Len(t) /\ s = SubSeq(t, 1, Len(s))

C7_PositiveDeltas ==
    (op \in {"save", "encode"} /\ DistinctPairs(notes))
        => \A i \in 1..Len(WriteNotes(notes)) :
              WriteNotes(notes)[i].role \in {"tick_delta", "layer_delta"}
                  => WriteNotes(notes)[i].val >= 1

\* Parser.jump on a stream read from its start: each value yielded is the
\* running sum, from -1, of the nonzero values read; it stops at the first zero
\* and consumes it, or raises struct.error when the stream ends before a zero.
JumpRunningSum ==
    /\ 2 * Len(yielded) <= Len(buffer)
    /\ \A i \in 1..Len(yielded) :
          /\ ShortAt(buffer, i) # 0
          /\ yielded[i] = (IF i = 1 THEN -1 ELSE yielded[i - 1]) + ShortAt(buffer, i)
    /\ IF err = "none"
       THEN /\ 2 * (Len(yielded) + 1) <= Len(buffer)
            /\ ShortAt(buffer, Len(yielded) + 1) = 0
            /\ pos = 2 * (Len(yielded) + 1)
       ELSE err = "struct.error" /\ Len(buffer) < 2 * (Len(yielded) + 1)

\* C8 as stated: for every stream of signed 16-bit values, jump yields the
\* running sums up to the first zero, and what it yields is strictly increasing
\* and non-negative.
C8_JumpIncreasing ==
    op = "jump" =>
        /\ JumpRunningSum
        /\ StrictlyIncreasing(yielded)
        /\ \A i \in 1..Len(yielded) : yielded[i] >= 0

\* C8 amended: jump yields the running sums up to the first zero, and what it
\* yields is strictly increasing and non-negative when every value read before
\* that zero is positive.
C8_JumpIncreasingWhenPositive ==
    op = "jump" =>
        /\ JumpRunningSum
        /\ (\A i \in 1..Len(yielded) : ShortAt(buffer, i) > 0)
              => /\ StrictlyIncreasing(yielded)
                 /\ \A i \in 1..Len(yielded) : yielded[i] >= 0

C8_Witness ==
    /\ op = "jump"
    /\ err = "none"
    /\ Len(yielded) = 2
    /\ ShortAt(buffer, 1) = 1
    /\ ShortAt(buffer, 2) = 3
    /\ yielded = <<0, 3>>
    /\ pos = 6

\* C9: notes with instrument and key in 0..255 and layers with volume in
\* 0..100 and panning in 0..200 are encoded without error, one byte per field,
\* and the byte decodes to the value encoded.
C9_ByteRanges ==
    (/\ op \in {"save", "encode"}
     /\ \A i \in 1..Len(notes) :
           notes[i].instrument \in 0..255 /\ notes[i].key \in 0..255
     /\ \A i \in 1..Len(layers) :
           layers[i].volume \in 0..100 /\ layers[i].panning \in 0..200)
        => /\ err = "none"
           /\ \A i \in 1..Len(notes) :
                 /\ Unpack("b", Pack("b", notes[i].instrument)) = notes[i].instrument
                 /\ Unpack("b", Pack("b", notes[i].key)) = notes[i].key
           /\ \A i \in 1..Len(layers) :
                 /\ Unpack("b", Pack("b", layers[i].volume)) = layers[i].volume
                 /\ Unpack("b", Pack("b", layers[i].panning)) = layers[i].panning

\* C10: iterating a document with notes yields exactly one pair per distinct
\* tick, no chord is empty, every note of a chord has the tick of its pair and
\* every note held is in exactly one chord; with no notes it yields nothing.
C10_Partition ==
    op = "iter" =>
        IF notes = <<>> THEN yielded = <<>>
        ELSE /\ \A t \in TickSet(notes) :
                   Cardinality({ i \in 1..Len(yielded) : yielded[i].tick = t }) = 1
             /\ \A i \in 1..Len(yielded) :
                   /\ yielded[i].chord # <<>>
                   /\ \A j \in 1..Len(yielded[i].chord) :
                         yielded[i].chord[j].tick = yielded[i].tick
             /\ \A n \in NoteSet(notes) : Occurrences(yielded, n, Len(notes)) = Held(notes, n)

=============================================================================
